---- MODULE Spec2Model ----
(***************************************************************************)
(* Model of the key orchestration of prvt (src/cmd/zz-keys.go): creation   *)
(* of an info file, addition of unlock factors, unlocking, and the format  *)
(* migration 1 -> 2 -> 3.  Every Go function of that file is an operator    *)
(* that maps the InfoFile and the outcomes of the external calls to the    *)
(* function's return values, the InfoFile it leaves behind and the trace   *)
(* of external calls it made ("ev").  The packages crypto, infofile and    *)
(* keys are not part of the sources at hand; they are modelled from the    *)
(* specification (symbolic cryptography: a derived key is the pair of its  *)
(* inputs, a wrapped blob is the pair of wrapping key and payload).        *)
(*                                                                         *)
(* A second specification, SandboxSpec, models the sandboxed side: main of *)
(* src/wasm/main.go and the unlock request handler of the page             *)
(* (src/unnamed/part_002, lines 53-83), which reads the global Prvt that   *)
(* main exports.  main exports no unlock, so the handler ends at its call  *)
(* of Prvt.unlock.                                                         *)
(***************************************************************************)
EXTENDS Integers, Sequences, FiniteSets, TLC

VARIABLES open, info, master, call, wasm, page

keyVars == <<open, info, master, call>>

sandboxVars == <<wasm, page>>

vars == <<open, info, master, call, wasm, page>>

\* Largest key list AddKey is still offered (bounds the state space).
MaxKeys == 2

\* Number of unlock requests the page's handler is given.
MaxRequests == 2

-----------------------------------------------------------------------------
(* Values *)

\* Go's nil error.
Nil == "nil"

\* Errors of this file (errors.New texts) and of the external collaborators.
ErrUnsupported == "This repository has already been upgraded or is using an unsupported version"
ErrInvalidPassphrase == "Invalid passphrase"
ErrGPGDuplicate == "This GPG key has already been added to the repository"
ErrPassphraseDuplicate == "This passphrase has already been added to the repository"
ErrNoGPG == "Cannot unlock with a GPG key"
ErrPrompt == "prompt: interrupted"
ErrNewInfo == "infofile.New failed"
ErrNewKey == "crypto.NewKey failed"
ErrSalt == "crypto.NewSalt failed"
ErrDerive == "crypto.KeyFromPassphrase failed"
ErrWrap == "crypto.WrapKey failed"
ErrAdd == "infofile add failed"
ErrGPG == "keys.GPGEncrypt failed"

\* Strings are sequences of character codes, so that strings.ToLower acts on them.
\* "ABC", "abc", "xyz", and "\u00c9B", "\u00e9b" (E with acute accent)
GpgIds == { <<65, 66, 67>>, <<97, 98, 99>>, <<120, 121, 122>>, <<201, 66>>, <<233, 98>> }

\* Passphrases the prompt can return (never empty: the prompt validates it).
Passphrases == { "hunter2", "backup-phrase", "wrong" }

\* Keys: generated ones and derived ones.
NilKey == [kind |-> "nil", a |-> "", b |-> <<>>]
GenKey(n) == [kind |-> "gen", a |-> n, b |-> <<>>]
GpgPub(id) == [kind |-> "gpg", a |-> "", b |-> id]
NilBlob == [wk |-> NilKey, pt |-> NilKey]

\* The points of one call at which an external collaborator can fail.
Faults == { "none", "prompt", "new", "key", "derive1", "salt", "derive", "wrap", "add", "gpg" }

-----------------------------------------------------------------------------
(* strings *)

\* The lower-case mappings of unicode.ToLower above ASCII: <<lo, hi, stride, delta>>
\* maps lo, lo + stride, ..., hi to themselves plus delta.
CaseRanges ==
    {
      <<192, 214, 1, 32>>, <<216, 222, 1, 32>>, <<256, 302, 2, 1>>, <<304, 304, 1, -199>>,
      <<306, 310, 2, 1>>, <<313, 327, 2, 1>>, <<330, 374, 2, 1>>, <<376, 376, 1, -121>>,
      <<377, 381, 2, 1>>, <<385, 385, 1, 210>>, <<386, 388, 2, 1>>, <<390, 390, 1, 206>>,
      <<391, 391, 1, 1>>, <<393, 394, 1, 205>>, <<395, 395, 1, 1>>, <<398, 398, 1, 79>>,
      <<399, 399, 1, 202>>, <<400, 400, 1, 203>>, <<401, 401, 1, 1>>, <<403, 403, 1, 205>>,
      <<404, 404, 1, 207>>, <<406, 406, 1, 211>>, <<407, 407, 1, 209>>, <<408, 408, 1, 1>>,
      <<412, 412, 1, 211>>, <<413, 413, 1, 213>>, <<415, 415, 1, 214>>, <<416, 420, 2, 1>>,
      <<422, 422, 1, 218>>, <<423, 423, 1, 1>>, <<425, 425, 1, 218>>, <<428, 428, 1, 1>>,
      <<430, 430, 1, 218>>, <<431, 431, 1, 1>>, <<433, 434, 1, 217>>, <<435, 437, 2, 1>>,
      <<439, 439, 1, 219>>, <<440, 440, 1, 1>>, <<444, 444, 1, 1>>, <<452, 452, 1, 2>>,
      <<453, 453, 1, 1>>, <<455, 455, 1, 2>>, <<456, 456, 1, 1>>, <<458, 458, 1, 2>>,
      <<459, 475, 2, 1>>, <<478, 494, 2, 1>>, <<497, 497, 1, 2>>, <<498, 500, 2, 1>>,
      <<502, 502, 1, -97>>, <<503, 503, 1, -56>>, <<504, 542, 2, 1>>, <<544, 544, 1, -130>>,
      <<546, 562, 2, 1>>, <<570, 570, 1, 10795>>, <<571, 571, 1, 1>>, <<573, 573, 1, -163>>,
      <<574, 574, 1, 10792>>, <<577, 577, 1, 1>>, <<579, 579, 1, -195>>, <<580, 580, 1, 69>>,
      <<581, 581, 1, 71>>, <<582, 590, 2, 1>>, <<880, 882, 2, 1>>, <<886, 886, 1, 1>>,
      <<895, 895, 1, 116>>, <<902, 902, 1, 38>>, <<904, 906, 1, 37>>, <<908, 908, 1, 64>>,
      <<910, 911, 1, 63>>, <<913, 929, 1, 32>>, <<931, 939, 1, 32>>, <<975, 975, 1, 8>>,
      <<984, 1006, 2, 1>>, <<1012, 1012, 1, -60>>, <<1015, 1015, 1, 1>>, <<1017, 1017, 1, -7>>,
      <<1018, 1018, 1, 1>>, <<1021, 1023, 1, -130>>, <<1024, 1039, 1, 80>>, <<1040, 1071, 1, 32>>,
      <<1120, 1152, 2, 1>>, <<1162, 1214, 2, 1>>, <<1216, 1216, 1, 15>>, <<1217, 1229, 2, 1>>,
      <<1232, 1326, 2, 1>>, <<1329, 1366, 1, 48>>, <<4256, 4293, 1, 7264>>, <<4295, 4295, 1, 7264>>,
      <<4301, 4301, 1, 7264>>, <<5024, 5103, 1, 38864>>, <<5104, 5109, 1, 8>>, <<7312, 7354, 1, -3008>>,
      <<7357, 7359, 1, -3008>>, <<7680, 7828, 2, 1>>, <<7838, 7838, 1, -7615>>, <<7840, 7934, 2, 1>>,
      <<7944, 7951, 1, -8>>, <<7960, 7965, 1, -8>>, <<7976, 7983, 1, -8>>, <<7992, 7999, 1, -8>>,
      <<8008, 8013, 1, -8>>, <<8025, 8031, 2, -8>>, <<8040, 8047, 1, -8>>, <<8072, 8079, 1, -8>>,
      <<8088, 8095, 1, -8>>, <<8104, 8111, 1, -8>>, <<8120, 8121, 1, -8>>, <<8122, 8123, 1, -74>>,
      <<8124, 8124, 1, -9>>, <<8136, 8139, 1, -86>>, <<8140, 8140, 1, -9>>, <<8152, 8153, 1, -8>>,
      <<8154, 8155, 1, -100>>, <<8168, 8169, 1, -8>>, <<8170, 8171, 1, -112>>, <<8172, 8172, 1, -7>>,
      <<8184, 8185, 1, -128>>, <<8186, 8187, 1, -126>>, <<8188, 8188, 1, -9>>, <<8486, 8486, 1, -7517>>,
      <<8490, 8490, 1, -8383>>, <<8491, 8491, 1, -8262>>, <<8498, 8498, 1, 28>>, <<8544, 8559, 1, 16>>,
      <<8579, 8579, 1, 1>>, <<9398, 9423, 1, 26>>, <<11264, 11311, 1, 48>>, <<11360, 11360, 1, 1>>,
      <<11362, 11362, 1, -10743>>, <<11363, 11363, 1, -3814>>, <<11364, 11364, 1, -10727>>, <<11367, 11371, 2, 1>>,
      <<11373, 11373, 1, -10780>>, <<11374, 11374, 1, -10749>>, <<11375, 11375, 1, -10783>>, <<11376, 11376, 1, -10782>>,
      <<11378, 11378, 1, 1>>, <<11381, 11381, 1, 1>>, <<11390, 11391, 1, -10815>>, <<11392, 11490, 2, 1>>,
      <<11499, 11501, 2, 1>>, <<11506, 11506, 1, 1>>, <<42560, 42604, 2, 1>>, <<42624, 42650, 2, 1>>,
      <<42786, 42798, 2, 1>>, <<42802, 42862, 2, 1>>, <<42873, 42875, 2, 1>>, <<42877, 42877, 1, -35332>>,
      <<42878, 42886, 2, 1>>, <<42891, 42891, 1, 1>>, <<42893, 42893, 1, -42280>>, <<42896, 42898, 2, 1>>,
      <<42902, 42920, 2, 1>>, <<42922, 42922, 1, -42308>>, <<42923, 42923, 1, -42319>>, <<42924, 42924, 1, -42315>>,
      <<42925, 42925, 1, -42305>>, <<42926, 42926, 1, -42308>>, <<42928, 42928, 1, -42258>>, <<42929, 42929, 1, -42282>>,
      <<42930, 42930, 1, -42261>>, <<42931, 42931, 1, 928>>, <<42932, 42946, 2, 1>>, <<42948, 42948, 1, -48>>,
      <<42949, 42949, 1, -42307>>, <<42950, 42950, 1, -35384>>, <<42951, 42953, 2, 1>>, <<42960, 42960, 1, 1>>,
      <<42966, 42968, 2, 1>>, <<42997, 42997, 1, 1>>, <<65313, 65338, 1, 32>>, <<66560, 66599, 1, 40>>,
      <<66736, 66771, 1, 40>>, <<66928, 66938, 1, 39>>, <<66940, 66954, 1, 39>>, <<66956, 66962, 1, 39>>,
      <<66964, 66965, 1, 39>>, <<68736, 68786, 1, 64>>, <<71840, 71871, 1, 32>>, <<93760, 93791, 1, 32>>,
      <<125184, 125217, 1, 34>>
    }

InCaseRange(c, r) == c >= r[1] /\ c <= r[2] /\ (c - r[1]) % r[3] = 0

\* strings.ToLower on one character, given as its code point: the ASCII
\* letters directly, every other character through unicode.ToLower.
ToLowerChar(c) ==
    IF c < 128
    THEN IF c >= 65 /\ c <= 90 THEN c + 32 ELSE c
    ELSE IF \E r \in CaseRanges : InCaseRange(c, r)
    THEN c + (CHOOSE r \in CaseRanges : InCaseRange(c, r))[4]
    ELSE c

ToLower(s) == [i \in 1..Len(s) |-> ToLowerChar(s[i])]

-----------------------------------------------------------------------------
(* package crypto *)

\* crypto.NewSalt: random bytes; a value no entry of the InfoFile holds.
RECURSIVE FreshFrom(_, _)
FreshFrom(used, n) == IF <<n>> \in used THEN FreshFrom(used, n + 1) ELSE <<n>>

UsedSalts(i) == { i.Salt } \cup { i.Keys[j].Salt : j \in 1..Len(i.Keys) }

NewSalt(i, fault) ==
    IF fault = "salt" THEN [salt |-> <<>>, err |-> ErrSalt]
    ELSE [salt |-> FreshFrom(UsedSalts(i), 1), err |-> Nil]

\* crypto.NewKey
NewKey(fault) ==
    IF fault = "key" THEN [key |-> NilKey, err |-> ErrNewKey]
    ELSE [key |-> GenKey("mk1"), err |-> Nil]

\* crypto.KeyFromPassphrase: both results are determined by (passphrase, salt).
KeyFromPassphrase(passphrase, salt, fails) ==
    IF fails THEN [key |-> NilKey, confirmationHash |-> <<>>, err |-> ErrDerive]
    ELSE [key |-> [kind |-> "kdf", a |-> passphrase, b |-> salt],
          confirmationHash |-> <<passphrase, salt>>, err |-> Nil]

\* crypto.WrapKey
WrapKey(wrappingKey, masterKey, fault) ==
    IF fault = "wrap" THEN [blob |-> NilBlob, err |-> ErrWrap]
    ELSE [blob |-> [wk |-> wrappingKey, pt |-> masterKey], err |-> Nil]

\* crypto.UnwrapKey
UnwrapKey(wrappingKey, blob) ==
    IF blob.wk = wrappingKey THEN [key |-> blob.pt, err |-> Nil]
    ELSE [key |-> NilKey, err |-> "crypto.UnwrapKey failed"]

\* subtle.ConstantTimeCompare
ConstantTimeCompare(x, y) == IF x = y THEN 1 ELSE 0

-----------------------------------------------------------------------------
(* package infofile *)

EmptyInfo == [Version |-> 3, Keys |-> <<>>, Salt |-> <<>>, ConfirmationHash |-> <<>>]

\* infofile.New
InfoFileNew(fault) ==
    IF fault = "new" THEN [info |-> EmptyInfo, err |-> ErrNewInfo]
    ELSE [info |-> EmptyInfo, err |-> Nil]

\* (*InfoFile).AddPassphrase
AddPassphrase(i, salt, confirmationHash, wrappedKey, fault) ==
    IF fault = "add" THEN [info |-> i, err |-> ErrAdd]
    ELSE [info |-> [i EXCEPT !.Keys = Append(@, [GPGKey |-> <<>>, MasterKey |-> wrappedKey,
                                                  Salt |-> salt,
                                                  ConfirmationHash |-> confirmationHash])],
          err |-> Nil]

\* (*InfoFile).AddGPGWrappedKey
AddGPGWrappedKey(i, gpgKey, wrappedKey, fault) ==
    IF fault = "add" THEN [info |-> i, err |-> ErrAdd]
    ELSE [info |-> [i EXCEPT !.Keys = Append(@, [GPGKey |-> gpgKey, MasterKey |-> wrappedKey,
                                                  Salt |-> <<>>,
                                                  ConfirmationHash |-> <<>>])],
          err |-> Nil]

-----------------------------------------------------------------------------
(* package keys *)

\* keys.GPGEncrypt
GPGEncrypt(masterKey, gpgKey, fault) ==
    IF fault = "gpg" THEN [blob |-> NilBlob, err |-> ErrGPG]
    ELSE [blob |-> [wk |-> GpgPub(ToLower(gpgKey)), pt |-> masterKey], err |-> Nil]

\* What every unlock attempt returns.
Unlocked(masterKey, keyId, ev) ==
    [masterKey |-> masterKey, keyId |-> keyId, errMessage |-> "", err |-> Nil, ev |-> ev]

Locked(errMessage, err, ev) ==
    [masterKey |-> NilKey, keyId |-> <<>>, errMessage |-> errMessage, err |-> err, ev |-> ev]

\* keys.GetMasterKeyWithGPG: the first asymmetric entry, in list order, whose
\* private key is in the local keyring.
RECURSIVE GpgFrom(_, _, _, _)
GpgFrom(i, keyring, j, ev) ==
    IF j > Len(i.Keys) THEN Locked("Cannot unlock the repository", ErrNoGPG, ev)
    ELSE IF i.Keys[j].GPGKey = <<>> THEN GpgFrom(i, keyring, j + 1, ev)
    ELSE IF ToLower(i.Keys[j].GPGKey) \in keyring
         THEN Unlocked(i.Keys[j].MasterKey.pt, i.Keys[j].GPGKey, Append(ev, "gpg-unwrap"))
         ELSE GpgFrom(i, keyring, j + 1, Append(ev, "gpg-unwrap"))

GetMasterKeyWithGPG(i, keyring) == GpgFrom(i, keyring, 1, <<>>)

\* keys.GetMasterKeyWithPassphrase: every passphrase entry in list order; the
\* confirmation hash is compared first, and only a matching entry is unwrapped.
RECURSIVE PassFrom(_, _, _, _)
PassFrom(i, passphrase, j, ev) ==
    IF j > Len(i.Keys) THEN Locked("Cannot unlock the repository", ErrInvalidPassphrase, ev)
    ELSE IF i.Keys[j].GPGKey # <<>> THEN PassFrom(i, passphrase, j + 1, ev)
    ELSE LET k == KeyFromPassphrase(passphrase, i.Keys[j].Salt, FALSE)
             u == UnwrapKey(k.key, i.Keys[j].MasterKey)
         IN  IF ConstantTimeCompare(i.Keys[j].ConfirmationHash, k.confirmationHash) = 1
             THEN IF u.err = Nil
                  THEN Unlocked(u.key, i.Keys[j].Salt, ev \o <<"try", "unwrap">>)
                  ELSE PassFrom(i, passphrase, j + 1, ev \o <<"try", "unwrap">>)
             ELSE PassFrom(i, passphrase, j + 1, Append(ev, "try"))

GetMasterKeyWithPassphrase(i, passphrase) == PassFrom(i, passphrase, 1, <<>>)

-----------------------------------------------------------------------------
(* package cmd: src/cmd/zz-keys.go *)

\* What the functions that work on an InfoFile return: the InfoFile as they
\* leave it, the two return values, and the external calls made, in order.
Ret(i, errMessage, err, ev) == [info |-> i, errMessage |-> errMessage, err |-> err, ev |-> ev]

\* PromptPassphrase dropping the prompt's error.
PromptPassphrase_DropsError(passphrase, fault) == [passphrase |-> passphrase, err |-> Nil]

\* PromptPassphrase: the interactive prompt either fails or returns a
\* non-empty passphrase.
PromptPassphrase(passphrase, fault) ==
    IF fault = "prompt" THEN [passphrase |-> "", err |-> ErrPrompt]
    ELSE [passphrase |-> passphrase, err |-> Nil]

\* addKeyPassphrase, "Before adding the key, check if it's already there"
AlreadyUnlocks_Inverted(i, passphrase) == GetMasterKeyWithPassphrase(i, passphrase).err # Nil

AlreadyUnlocks(i, passphrase) == GetMasterKeyWithPassphrase(i, passphrase).err = Nil

\* addKeyPassphrase with the arguments of crypto.WrapKey in the wrong order.
addKeyPassphrase_SwappedWrap(i, masterKey, passphrase, fault) ==
    LET pr   == PromptPassphrase(passphrase, fault)
        test == GetMasterKeyWithPassphrase(i, pr.passphrase)
        ns   == NewSalt(i, fault)
        k    == KeyFromPassphrase(pr.passphrase, ns.salt, fault = "derive")
        w    == WrapKey(masterKey, k.key, fault)
        ad   == AddPassphrase(i, ns.salt, k.confirmationHash, w.blob, fault)
    IN  IF pr.err # Nil THEN Ret(i, "Error getting passphrase", pr.err, <<"prompt">>)
        ELSE IF AlreadyUnlocks(i, pr.passphrase)
             THEN Ret(i, "Key already added", ErrPassphraseDuplicate, <<"prompt">> \o test.ev)
        ELSE IF ns.err # Nil
             THEN Ret(i, "Error generating a new salt", ns.err, <<"prompt">> \o test.ev \o <<"salt">>)
        ELSE IF k.err # Nil
             THEN Ret(i, "Error deriving the wrapping key", k.err,
                      <<"prompt">> \o test.ev \o <<"salt", "derive">>)
        ELSE IF w.err # Nil
             THEN Ret(i, "Error wrapping the master key", w.err,
                      <<"prompt">> \o test.ev \o <<"salt", "derive", "wrap">>)
        ELSE IF ad.err # Nil
             THEN Ret(ad.info, "Error adding the key", ad.err,
                      <<"prompt">> \o test.ev \o <<"salt", "derive", "wrap", "add">>)
        ELSE Ret(ad.info, "", Nil, <<"prompt">> \o test.ev \o <<"salt", "derive", "wrap", "add">>)

\* addKeyPassphrase
addKeyPassphrase(i, masterKey, passphrase, fault) ==
    LET pr   == PromptPassphrase(passphrase, fault)
        test == GetMasterKeyWithPassphrase(i, pr.passphrase)
        ns   == NewSalt(i, fault)
        k    == KeyFromPassphrase(pr.passphrase, ns.salt, fault = "derive")
        w    == WrapKey(k.key, masterKey, fault)
        ad   == AddPassphrase(i, ns.salt, k.confirmationHash, w.blob, fault)
    IN  IF pr.err # Nil THEN Ret(i, "Error getting passphrase", pr.err, <<"prompt">>)
        ELSE IF AlreadyUnlocks(i, pr.passphrase)
             THEN Ret(i, "Key already added", ErrPassphraseDuplicate, <<"prompt">> \o test.ev)
        ELSE IF ns.err # Nil
             THEN Ret(i, "Error generating a new salt", ns.err, <<"prompt">> \o test.ev \o <<"salt">>)
        ELSE IF k.err # Nil
             THEN Ret(i, "Error deriving the wrapping key", k.err,
                      <<"prompt">> \o test.ev \o <<"salt", "derive">>)
        ELSE IF w.err # Nil
             THEN Ret(i, "Error wrapping the master key", w.err,
                      <<"prompt">> \o test.ev \o <<"salt", "derive", "wrap">>)
        ELSE IF ad.err # Nil
             THEN Ret(ad.info, "Error adding the key", ad.err,
                      <<"prompt">> \o test.ev \o <<"salt", "derive", "wrap", "add">>)
        ELSE Ret(ad.info, "", Nil, <<"prompt">> \o test.ev \o <<"salt", "derive", "wrap", "add">>)

\* addKeyGPG
addKeyGPG(i, masterKey, gpgKey, fault) ==
    LET w  == GPGEncrypt(masterKey, gpgKey, fault)
        ad == AddGPGWrappedKey(i, gpgKey, w.blob, fault)
    IN  IF w.err # Nil
        THEN Ret(i, "Error encrypting the master key with GPG", w.err, <<"gpg-wrap">>)
        ELSE IF ad.err # Nil
             THEN Ret(ad.info, "Error adding the key", ad.err, <<"gpg-wrap", "add">>)
        ELSE Ret(ad.info, "", Nil, <<"gpg-wrap", "add">>)

\* The loop of AddKey with the stored ids compared as they are.
HasGPGKey_CaseSensitive(i, keyId) == \E j \in 1..Len(i.Keys) : i.Keys[j].GPGKey = keyId

\* The loop of AddKey over info.Keys: is the lowercased id already there?
HasGPGKey(i, keyId) == \E j \in 1..Len(i.Keys) : ToLower(i.Keys[j].GPGKey) = keyId

\* AddKey
AddKey(i, masterKey, gpgKey, passphrase, fault) ==
    IF gpgKey = <<>> THEN addKeyPassphrase(i, masterKey, passphrase, fault)
    ELSE IF HasGPGKey(i, ToLower(gpgKey))
         THEN Ret(i, "Key already added", ErrGPGDuplicate, <<>>)
         ELSE addKeyGPG(i, masterKey, gpgKey, fault)

\* NewInfoFile: "isNil" says that the returned *InfoFile is nil; "key" is the
\* master key it generated (the function does not return it).
NewInfoFile(gpgKey, passphrase, fault) ==
    LET nf == InfoFileNew(fault)
        nk == NewKey(fault)
        ak == AddKey(nf.info, nk.key, gpgKey, passphrase, fault)
    IN  IF nf.err # Nil
        THEN [info |-> EmptyInfo, isNil |-> TRUE, key |-> NilKey, inner |-> Nil,
              errMessage |-> "Error creating info file", err |-> nf.err, ev |-> <<"new">>]
        ELSE IF nk.err # Nil
        THEN [info |-> EmptyInfo, isNil |-> TRUE, key |-> NilKey, inner |-> Nil,
              errMessage |-> "Error generating the master key", err |-> nk.err,
              ev |-> <<"new", "key">>]
        ELSE [info |-> IF ak.err # Nil THEN EmptyInfo ELSE ak.info,
              isNil |-> ak.err # Nil, key |-> nk.key, inner |-> ak.err,
              errMessage |-> "", err |-> Nil, ev |-> <<"new", "key">> \o ak.ev]

\* "Remove the old key" forgetting the confirmation hash.
RemoveOldKey_KeepsHash(i) == [i EXCEPT !.Salt = <<>>]

\* "Remove the old key" taken to mean the oldest entry of the key list.
RemoveOldKey_DropsEntry(i) ==
    [i EXCEPT !.Keys = Tail(@), !.Salt = <<>>, !.ConfirmationHash = <<>>]

\* upgradeInfoFileV1, "Remove the old key"
RemoveOldKey(i) == [i EXCEPT !.Salt = <<>>, !.ConfirmationHash = <<>>]

\* The test of the prompted passphrase without the comparison of the hashes.
LegacyUnlockFails_ErrOnly(i, k1) == k1.err # Nil

\* upgradeInfoFileV1, the test of the prompted passphrase against the legacy hash
LegacyUnlockFails(i, k1) ==
    k1.err # Nil \/ ConstantTimeCompare(i.ConfirmationHash, k1.confirmationHash) = 0

\* The test for a legacy passphrase satisfied by either field alone.
HasLegacyPassphrase_Either(i) == Len(i.Salt) > 0 \/ Len(i.ConfirmationHash) > 0

\* upgradeInfoFileV1, "passphrases need to be migrated": both legacy fields are set
HasLegacyPassphrase(i) == Len(i.Salt) > 0 /\ Len(i.ConfirmationHash) > 0

\* upgradeInfoFileV1
upgradeInfoFileV1(i, passphrase, fault) ==
    IF HasLegacyPassphrase(i)
    THEN LET pr == PromptPassphrase(passphrase, fault)
             k1 == KeyFromPassphrase(pr.passphrase, i.Salt, fault = "derive1")
             ns == NewSalt(i, fault)
             k2 == KeyFromPassphrase(pr.passphrase, ns.salt, fault = "derive")
             w  == WrapKey(k2.key, k1.key, fault)
             ad == AddPassphrase(i, ns.salt, k2.confirmationHash, w.blob, fault)
         IN  IF pr.err # Nil THEN Ret(i, "Error getting passphrase", pr.err, <<"prompt">>)
             ELSE IF LegacyUnlockFails(i, k1)
                  THEN Ret(i, "Cannot unlock the repository", ErrInvalidPassphrase,
                           <<"prompt", "derive">>)
             ELSE IF ns.err # Nil
                  THEN Ret(i, "Error generating a new salt", ns.err, <<"prompt", "derive", "salt">>)
             ELSE IF k2.err # Nil
                  THEN Ret(i, "Error deriving the wrapping key", k2.err,
                           <<"prompt", "derive", "salt", "derive">>)
             ELSE IF w.err # Nil
                  THEN Ret(i, "Error wrapping the master key", w.err,
                           <<"prompt", "derive", "salt", "derive", "wrap">>)
             ELSE IF ad.err # Nil
                  THEN Ret(ad.info, "Error adding the key", ad.err,
                           <<"prompt", "derive", "salt", "derive", "wrap", "add">>)
             ELSE Ret(RemoveOldKey(ad.info), "", Nil,
                      <<"prompt", "derive", "salt", "derive", "wrap", "add">>)
    ELSE Ret(i, "", Nil, <<>>)

\* The version test letting the current version through as a no-op.
UnsupportedVersion_AllowsCurrent(i) == i.Version # 1 /\ i.Version # 2 /\ i.Version # 3

\* The version test rejecting only what is newer than version 2.
UnsupportedVersion_OnlyNewer(i) == i.Version > 2

\* UpgradeInfoFile, "Can only upgrade info files version 1 and 2"
UnsupportedVersion(i) == i.Version # 1 /\ i.Version # 2

\* What UpgradeInfoFile returns, with the values it assigned to info.Version, in order.
Wrote(r, versions) ==
    [info |-> r.info, errMessage |-> r.errMessage, err |-> r.err, ev |-> r.ev,
     versions |-> versions]

\* UpgradeInfoFile assigning the version after each step: 2 after 1 -> 2, then 3.
UpgradeInfoFile_Stepwise(i, passphrase, fault) ==
    IF UnsupportedVersion(i)
    THEN Wrote(Ret(i, "Unsupported repository version", ErrUnsupported, <<>>), <<>>)
    ELSE LET v1 == IF i.Version < 2 THEN upgradeInfoFileV1(i, passphrase, fault)
                   ELSE Ret(i, "", Nil, <<>>)
         IN  IF v1.err # Nil THEN Wrote(v1, <<>>)
             ELSE Wrote(Ret([v1.info EXCEPT !.Version = 3], "", Nil, v1.ev),
                        IF i.Version < 2 THEN <<2, 3>> ELSE <<3>>)

\* UpgradeInfoFile moving the version one step per call.
UpgradeInfoFile_OneStepPerCall(i, passphrase, fault) ==
    IF UnsupportedVersion(i)
    THEN Wrote(Ret(i, "Unsupported repository version", ErrUnsupported, <<>>), <<>>)
    ELSE LET v1 == IF i.Version < 2 THEN upgradeInfoFileV1(i, passphrase, fault)
                   ELSE Ret(i, "", Nil, <<>>)
         IN  IF v1.err # Nil THEN Wrote(v1, <<>>)
             ELSE Wrote(Ret([v1.info EXCEPT !.Version = i.Version + 1], "", Nil, v1.ev),
                        <<i.Version + 1>>)

\* UpgradeInfoFile updating the version before it looks at the error of the 1 -> 2 step.
UpgradeInfoFile_VersionFirst(i, passphrase, fault) ==
    IF UnsupportedVersion(i)
    THEN Wrote(Ret(i, "Unsupported repository version", ErrUnsupported, <<>>), <<>>)
    ELSE LET v1 == IF i.Version < 2 THEN upgradeInfoFileV1(i, passphrase, fault)
                   ELSE Ret(i, "", Nil, <<>>)
         IN  Wrote(Ret([v1.info EXCEPT !.Version = 3], v1.errMessage, v1.err, v1.ev), <<3>>)

\* UpgradeInfoFile
UpgradeInfoFile(i, passphrase, fault) ==
    IF UnsupportedVersion(i)
    THEN Wrote(Ret(i, "Unsupported repository version", ErrUnsupported, <<>>), <<>>)
    ELSE LET v1 == IF i.Version < 2 THEN upgradeInfoFileV1(i, passphrase, fault)
                   ELSE Ret(i, "", Nil, <<>>)
         IN  IF v1.err # Nil THEN Wrote(v1, <<>>)
             ELSE Wrote(Ret([v1.info EXCEPT !.Version = 3], "", Nil, v1.ev), <<3>>)

\* GetMasterKey asking for the passphrase before it tries the GPG keys.
GetMasterKey_PromptsFirst(i, passphrase, keyring, fault) ==
    LET g  == GetMasterKeyWithGPG(i, keyring)
        pr == PromptPassphrase(passphrase, fault)
        p  == GetMasterKeyWithPassphrase(i, pr.passphrase)
    IN  IF pr.err # Nil THEN Locked("Error getting passphrase", pr.err, <<"prompt">>)
        ELSE IF g.err = Nil THEN [g EXCEPT !.ev = <<"prompt">> \o @]
        ELSE [p EXCEPT !.ev = <<"prompt">> \o g.ev \o @]

\* GetMasterKey returning the GPG attempt's results when no passphrase entry matches.
GetMasterKey_KeepsGPGError(i, passphrase, keyring, fault) ==
    LET g  == GetMasterKeyWithGPG(i, keyring)
        pr == PromptPassphrase(passphrase, fault)
        p  == GetMasterKeyWithPassphrase(i, pr.passphrase)
    IN  IF g.err = Nil THEN g
        ELSE IF pr.err # Nil
             THEN Locked("Error getting passphrase", pr.err, g.ev \o <<"prompt">>)
        ELSE IF p.err # Nil THEN [g EXCEPT !.ev = g.ev \o <<"prompt">> \o p.ev]
        ELSE [p EXCEPT !.ev = g.ev \o <<"prompt">> \o @]

\* GetMasterKey
GetMasterKey(i, passphrase, keyring, fault) ==
    LET g  == GetMasterKeyWithGPG(i, keyring)
        pr == PromptPassphrase(passphrase, fault)
        p  == GetMasterKeyWithPassphrase(i, pr.passphrase)
    IN  IF g.err = Nil THEN g
        ELSE IF pr.err # Nil
             THEN Locked("Error getting passphrase", pr.err, g.ev \o <<"prompt">>)
        ELSE [p EXCEPT !.ev = g.ev \o <<"prompt">> \o @]

-----------------------------------------------------------------------------
(* package main: src/wasm/main.go *)

\* The module before main runs: nothing is exported to the host.
WasmStart == [pc |-> "start", global |-> {}]

\* main returning to its host after the export.
Main_Returns(w) ==
    IF w.pc = "start"
    THEN [pc |-> "select",
          global |-> w.global \cup {<<"Prvt", "decryptRequest">>, <<"Prvt", "getIndex">>}]
    ELSE [w EXCEPT !.pc = "exit"]

\* The global Prvt has a member of this name.
PrvtHas(global, name) == <<"Prvt", name>> \in global

\* main, one step: js.Global().Set("Prvt", {...}), then select {}, which has
\* no case to take and so leaves the goroutine where it is.
Main(w) ==
    IF w.pc = "start"
    THEN [pc |-> "select",
          global |-> w.global \cup {<<"Prvt", "decryptRequest">>, <<"Prvt", "getIndex">>}]
    ELSE w

-----------------------------------------------------------------------------
(* The unlock request handler of the page: src/unnamed/part_002, lines 53-83 *)

\* JavaScript values, as far as the handler tells them apart: undefined (a
\* missing field), null, strings, arrays, and other objects (key bytes, the
\* index handle), which are opaque.
JS(t, s, e) == [t |-> t, s |-> s, e |-> e]

Undefined == JS("undefined", "", <<>>)

JSNull == JS("null", "", <<>>)

Str(s) == JS("string", s, <<>>)

Arr(e) == JS("array", "", e)

Obj(name) == JS("object", name, <<>>)

RECURSIVE toString(_)
RECURSIVE Join(_)

\* Array.prototype.join(","): undefined and null elements give the empty string.
Join(e) ==
    IF e = <<>> THEN ""
    ELSE LET first == IF e[1].t \in {"undefined", "null"} THEN "" ELSE toString(e[1])
         IN  IF Len(e) = 1 THEN first ELSE first \o "," \o Join(Tail(e))

\* The string a value converts to.
toString(v) ==
    CASE v.t = "string"    -> v.s
      [] v.t = "array"     -> Join(v.e)
      [] v.t = "object"    -> "[object Object]"
      [] v.t = "null"      -> "null"
      [] v.t = "undefined" -> "undefined"

\* v == str for a string str: a string is compared as it is, an array or
\* object after conversion to a string, and undefined and null equal no string.
LooseEquals(v, str) ==
    CASE v.t = "string"                -> v.s = str
      [] v.t \in {"array", "object"}  -> toString(v) = str
      [] v.t \in {"undefined", "null"} -> FALSE

\* A value in the place of a condition.
Truthy(v) ==
    CASE v.t = "string"                -> v.s # ""
      [] v.t \in {"array", "object"}  -> TRUE
      [] v.t \in {"undefined", "null"} -> FALSE

\* What an awaited call gives: null, an object with the two fields read
\* here, or a rejection.
Null == [kind |-> "null", a |-> Undefined, b |-> Undefined]
Rejected == [kind |-> "reject", a |-> Undefined, b |-> Undefined]
Object(a, b) == [kind |-> "object", a |-> a, b |-> b]

\* What req.json() resolves to: a is data.type, b is data.passphrase.
Bodies ==
    { Null, Rejected,
      Object(Str("passphrase"), Str("hunter2")),
      Object(Str("passphrase"), Str("")),
      Object(Str("passphrase"), Undefined),
      Object(Str("gpg"), Str("hunter2")),
      Object(Undefined, Str("hunter2")),
      Object(Arr(<<Str("passphrase")>>), Str("hunter2")),
      Object(Arr(<<Arr(<<Str("passphrase")>>)>>), Str("hunter2")),
      Object(Arr(<<Str("pass"), Str("phrase")>>), Str("hunter2")) }

\* What Prvt.unlock resolves to: a is result.masterKey, b is result.keyId.
UnlockResults ==
    { Null, Rejected,
      Object(Obj("MK"), Str("p:01")), Object(Obj("MK2"), Str("p:02")),
      Object(Obj("MK"), Undefined), Object(Obj("MK"), Str("")),
      Object(Undefined, Str("p:01")), Object(Undefined, Undefined) }

NoStores == [masterKey |-> Undefined, keyId |-> Undefined, index |-> Undefined]

\* Prvt.getIndex(masterKey): the index object of that key.
GetIndex(masterKey) == Obj("index")

NoResponse == [keyId |-> Undefined, type |-> Undefined]

\* An invocation of the handler that has called req.json().  Each invocation
\* keeps what it read, what it called and how it ended, and the stores as they
\* were before and after its last run.
NewRequest(stores) ==
    [pc |-> "json", data |-> Null, called |-> FALSE, result |-> Null, outcome |-> "pending",
     error |-> "", response |-> NoResponse, before |-> stores, after |-> stores]

\* What calling Prvt.<name> throws when the global Prvt has no such member:
\* a ReferenceError without a global Prvt, a TypeError otherwise.
MissingMember(global) ==
    IF \E m \in global : m[1] = "Prvt" THEN "TypeError" ELSE "ReferenceError"

\* The page: the stores, the invocations of the handler in the order they
\* began, the timers set and the messages broadcast (each with the number of
\* the invocation that caused it).
PageStart == [stores |-> NoStores, reqs |-> <<>>, timers |-> <<>>, broadcasts |-> <<>>]

\* "if (!data || data.type != 'passphrase' || !data.passphrase)"
InvalidRequest(data) ==
    data.kind = "null" \/ ~LooseEquals(data.a, "passphrase") \/ ~Truthy(data.b)

\* "if (!result || !result.masterKey || !result.keyId)"
InvalidResult(result) == result.kind = "null" \/ ~Truthy(result.a) \/ ~Truthy(result.b)

\* JSONResponse({keyId: result.keyId, type: 'passphrase'})
UnlockResponse(result) == [keyId |-> result.b, type |-> Str("passphrase")]

\* BroadcastMessage({message: 'unlocked'})
UnlockedMessage == [message |-> Str("unlocked")]

\* The handler from its start to the first await: req.json() is called.
HandlerBegin(p) == [p EXCEPT !.reqs = Append(@, NewRequest(p.stores))]

\* The handler setting its timer as soon as the body is read.
HandlerParsed_NotifiesFirst(p, n, data, global) ==
    LET q == [p EXCEPT !.timers = Append(@, n)]
    IN  IF data.kind = "reject"
        THEN [q EXCEPT !.reqs[n] = [@ EXCEPT !.pc = "done", !.data = data, !.outcome = "thrown",
                                             !.error = "rejected",
                                             !.before = p.stores, !.after = p.stores]]
        ELSE IF InvalidRequest(data)
        THEN [q EXCEPT !.reqs[n] = [@ EXCEPT !.pc = "done", !.data = data,
                                             !.outcome = "undefined",
                                             !.before = p.stores, !.after = p.stores]]
        ELSE IF ~PrvtHas(global, "unlock")
        THEN [q EXCEPT !.reqs[n] = [@ EXCEPT !.pc = "done", !.data = data, !.outcome = "thrown",
                                             !.error = MissingMember(global),
                                             !.before = p.stores, !.after = p.stores]]
        ELSE [q EXCEPT !.reqs[n] = [@ EXCEPT !.pc = "unlock", !.data = data, !.called = TRUE]]

\* Invocation n from the result of req.json() to the call of Prvt.unlock, or
\* to its end; global is the global object the handler finds Prvt in.
HandlerParsed(p, n, data, global) ==
    IF data.kind = "reject"
    THEN [p EXCEPT !.reqs[n] = [@ EXCEPT !.pc = "done", !.data = data, !.outcome = "thrown",
                                         !.error = "rejected",
                                         !.before = p.stores, !.after = p.stores]]
    ELSE IF InvalidRequest(data)
    THEN [p EXCEPT !.reqs[n] = [@ EXCEPT !.pc = "done", !.data = data, !.outcome = "undefined",
                                         !.before = p.stores, !.after = p.stores]]
    ELSE IF ~PrvtHas(global, "unlock")
    THEN [p EXCEPT !.reqs[n] = [@ EXCEPT !.pc = "done", !.data = data, !.outcome = "thrown",
                                         !.error = MissingMember(global),
                                         !.before = p.stores, !.after = p.stores]]
    ELSE [p EXCEPT !.reqs[n] = [@ EXCEPT !.pc = "unlock", !.data = data, !.called = TRUE]]

\* Invocation n from the result of Prvt.unlock to its end.
HandlerUnlocked(p, n, result, indexThrows, global) ==
    LET stored  == [p.stores EXCEPT !.masterKey = result.a, !.keyId = result.b]
        indexed == [stored EXCEPT !.index = GetIndex(stored.masterKey)]
    IN  IF result.kind = "reject"
        THEN [p EXCEPT !.reqs[n] = [@ EXCEPT !.pc = "done", !.result = result,
                                             !.outcome = "thrown", !.error = "rejected",
                                             !.before = p.stores, !.after = p.stores]]
        ELSE IF InvalidResult(result)
        THEN [p EXCEPT !.reqs[n] = [@ EXCEPT !.pc = "done", !.result = result,
                                             !.outcome = "thrown", !.error = "Invalid response",
                                             !.before = p.stores, !.after = p.stores]]
        ELSE IF ~PrvtHas(global, "getIndex") \/ indexThrows
        THEN [p EXCEPT !.stores = stored,
                       !.reqs[n] = [@ EXCEPT !.pc = "done", !.result = result,
                                             !.outcome = "thrown",
                                             !.error = IF PrvtHas(global, "getIndex")
                                                       THEN "getIndex"
                                                       ELSE MissingMember(global),
                                             !.before = p.stores, !.after = stored]]
        ELSE [p EXCEPT !.stores = indexed,
                       !.timers = Append(@, n),
                       !.reqs[n] = [@ EXCEPT !.pc = "done", !.result = result,
                                             !.outcome = "response",
                                             !.response = UnlockResponse(result),
                                             !.before = p.stores, !.after = indexed]]

\* The callback of setTimeout(..., 0): the oldest timer fires.
TimerFired(p) ==
    [p EXCEPT !.timers = Tail(@),
              !.broadcasts = Append(@, [req |-> Head(p.timers), body |-> UnlockedMessage,
                                        stores |-> p.stores])]

-----------------------------------------------------------------------------
(* The program: one InfoFile, and the calls made on it *)

\* The passphrase and salt of the version-1 repositories found on disk.
LegacyPassphrase == "hunter2"
LegacySalt == <<1>>
LegacyKdf == KeyFromPassphrase(LegacyPassphrase, LegacySalt, FALSE)

GpgEntry(gpgKey, masterKey) ==
    [GPGKey |-> gpgKey, MasterKey |-> [wk |-> GpgPub(ToLower(gpgKey)), pt |-> masterKey],
     Salt |-> <<>>, ConfirmationHash |-> <<>>]

PassEntry(passphrase, salt, masterKey) ==
    LET k == KeyFromPassphrase(passphrase, salt, FALSE)
    IN  [GPGKey |-> <<>>, MasterKey |-> [wk |-> k.key, pt |-> masterKey],
         Salt |-> salt, ConfirmationHash |-> k.confirmationHash]

File(version, keys, salt, hash, masterKey) ==
    [info |-> [Version |-> version, Keys |-> keys, Salt |-> salt, ConfirmationHash |-> hash],
     master |-> masterKey]

\* Info files written by earlier releases (versions 1 and 2), and files whose
\* version this release does not know.
DiskFiles ==
    { File(1, <<>>, LegacySalt, LegacyKdf.confirmationHash, LegacyKdf.key),
      File(1, <<GpgEntry(<<65, 66, 67>>, LegacyKdf.key)>>, LegacySalt,
           LegacyKdf.confirmationHash, LegacyKdf.key),
      File(1, <<GpgEntry(<<65, 66, 67>>, GenKey("mk1"))>>, <<>>, <<>>, GenKey("mk1")),
      File(1, <<GpgEntry(<<65, 66, 67>>, GenKey("mk1"))>>, LegacySalt, <<>>, GenKey("mk1")),
      File(2, <<PassEntry("hunter2", <<1>>, GenKey("mk1"))>>, <<>>, <<>>, GenKey("mk1")),
      File(2, <<GpgEntry(<<120, 121, 122>>, GenKey("mk1")),
                PassEntry("backup-phrase", <<1>>, GenKey("mk1"))>>, <<>>, <<>>, GenKey("mk1")) }
    \cup { File(v, <<PassEntry("hunter2", <<1>>, GenKey("mk1"))>>, <<>>, <<>>, GenKey("mk1")) :
           v \in {-1, 0, 4} }

\* The private keys the local GPG keyring may hold, by lowercased id.
Keyrings == SUBSET { <<97, 98, 99>>, <<120, 121, 122>> }

\* The record of the last call: its inputs, the InfoFile before it, its results.
NoCall ==
    [op |-> "none", pre |-> EmptyInfo, passphrase |-> "", gpgKey |-> <<>>, masterKey |-> NilKey,
     keyring |-> {}, fault |-> "none", errMessage |-> "", err |-> Nil, retKey |-> NilKey,
     keyId |-> <<>>, isNil |-> FALSE, inner |-> Nil, ev |-> <<>>, versions |-> <<>>]

\* The calls of package cmd.
KeysInit ==
    /\ call = NoCall
    /\ \/ /\ open = FALSE
          /\ info = EmptyInfo
          /\ master = NilKey
       \/ \E f \in DiskFiles :
             /\ open = TRUE
             /\ info = f.info
             /\ master = f.master

Init == KeysInit /\ wasm = WasmStart /\ page = PageStart

\* The inputs of a call that adds a key: with a GPG key id nothing is prompted,
\* and only the GPG wrap and the append can fail; without one the prompt answers.
AddKeyInputs ==
    [gpgKey : GpgIds, passphrase : {""}, fault : {"none", "gpg", "add"}]
    \cup [gpgKey : {<<>>}, passphrase : {""}, fault : {"prompt"}]
    \cup [gpgKey : {<<>>}, passphrase : Passphrases,
          fault : {"none", "salt", "derive", "wrap", "add"}]

\* The inputs of the calls that may prompt: the prompt fails, or it answers.
PromptInputs(faults) ==
    [passphrase : {""}, fault : {"prompt"}] \cup [passphrase : Passphrases, fault : faults]

\* cmd.NewInfoFile(gpgKey): creates the repository's InfoFile.
DoNewInfoFile ==
    /\ ~open
    /\ \E in \in AddKeyInputs \cup [gpgKey : {<<>>}, passphrase : {""}, fault : {"new", "key"}] :
          LET r == NewInfoFile(in.gpgKey, in.passphrase, in.fault)
          IN  /\ open' = ~r.isNil
              /\ info' = r.info
              /\ master' = IF r.isNil THEN NilKey ELSE r.key
              /\ call' = [NoCall EXCEPT !.op = "NewInfoFile", !.pre = info,
                                        !.passphrase = in.passphrase, !.gpgKey = in.gpgKey,
                                        !.fault = in.fault, !.errMessage = r.errMessage,
                                        !.err = r.err, !.isNil = r.isNil, !.inner = r.inner,
                                        !.ev = r.ev]
    /\ UNCHANGED sandboxVars

\* cmd.AddKey(info, masterKey, gpgKey): the callers pass the master key that
\* GetMasterKey returned for this repository.
DoAddKey ==
    /\ open
    /\ Len(info.Keys) < MaxKeys
    /\ \E in \in AddKeyInputs :
          LET masterKey == master
              r == AddKey(info, masterKey, in.gpgKey, in.passphrase, in.fault)
          IN  /\ info' = r.info
              /\ call' = [NoCall EXCEPT !.op = "AddKey", !.pre = info,
                                        !.passphrase = in.passphrase, !.gpgKey = in.gpgKey,
                                        !.masterKey = masterKey, !.fault = in.fault,
                                        !.errMessage = r.errMessage, !.err = r.err,
                                        !.ev = r.ev]
              /\ UNCHANGED <<open, master>>
    /\ UNCHANGED sandboxVars

\* cmd.GetMasterKey(info)
DoGetMasterKey ==
    /\ open
    /\ \E in \in PromptInputs({"none"}), keyring \in Keyrings :
          LET r == GetMasterKey(info, in.passphrase, keyring, in.fault)
          IN  /\ call' = [NoCall EXCEPT !.op = "GetMasterKey", !.pre = info,
                                        !.passphrase = in.passphrase, !.keyring = keyring,
                                        !.fault = in.fault, !.errMessage = r.errMessage,
                                        !.err = r.err, !.retKey = r.masterKey,
                                        !.keyId = r.keyId, !.ev = r.ev]
              /\ UNCHANGED <<open, info, master>>
    /\ UNCHANGED sandboxVars

\* cmd.UpgradeInfoFile(info)
DoUpgradeInfoFile ==
    /\ open
    /\ \E in \in PromptInputs({"none", "derive1", "salt", "derive", "wrap", "add"}) :
          LET r == UpgradeInfoFile(info, in.passphrase, in.fault)
          IN  /\ info' = r.info
              /\ call' = [NoCall EXCEPT !.op = "UpgradeInfoFile", !.pre = info,
                                        !.passphrase = in.passphrase, !.fault = in.fault,
                                        !.errMessage = r.errMessage, !.err = r.err,
                                        !.ev = r.ev, !.versions = r.versions]
              /\ UNCHANGED <<open, master>>
    /\ UNCHANGED sandboxVars

Next == DoNewInfoFile \/ DoAddKey \/ DoGetMasterKey \/ DoUpgradeInfoFile

Spec == Init /\ [][Next]_vars

-----------------------------------------------------------------------------
(* The sandboxed side: the module's main and the page's unlock handler *)

SandboxInit ==
    /\ open = FALSE
    /\ info = EmptyInfo
    /\ master = NilKey
    /\ call = NoCall
    /\ wasm = WasmStart
    /\ page = PageStart

\* main of the sandboxed module takes its next step.
WasmMain ==
    /\ wasm' = Main(wasm)
    /\ UNCHANGED <<open, info, master, call, page>>

\* A request reaches the handler, which awaits req.json(); earlier
\* invocations may still be waiting.
RequestArrives ==
    /\ Len(page.reqs) < MaxRequests
    /\ page' = HandlerBegin(page)
    /\ UNCHANGED <<open, info, master, call, wasm>>

\* req.json() of an invocation settles; it runs to its next await or to its end.
BodyRead ==
    /\ \E n \in 1..Len(page.reqs) :
          /\ page.reqs[n].pc = "json"
          /\ \E data \in Bodies : page' = HandlerParsed(page, n, data, wasm.global)
    /\ UNCHANGED <<open, info, master, call, wasm>>

\* Prvt.unlock of an invocation settles; it runs to its end.
UnlockSettles ==
    /\ \E n \in 1..Len(page.reqs) :
          /\ page.reqs[n].pc = "unlock"
          /\ \E result \in UnlockResults, indexThrows \in BOOLEAN :
                page' = HandlerUnlocked(page, n, result, indexThrows, wasm.global)
    /\ UNCHANGED <<open, info, master, call, wasm>>

\* The next tick: a timer set by the handler fires.
NextTick ==
    /\ page.timers # <<>>
    /\ page' = TimerFired(page)
    /\ UNCHANGED <<open, info, master, call, wasm>>

\* The module of src/wasm/main.go and the page.  Prvt has no unlock, so no
\* invocation gets as far as waiting for it and no timer is ever set:
\* UnlockSettles and NextTick are never enabled.
SandboxNext == WasmMain \/ RequestArrives \/ BodyRead

SandboxSpec == SandboxInit /\ [][SandboxNext]_vars

-----------------------------------------------------------------------------
(* Vocabulary of the claims *)

IsPassphraseEntry(k) == k.GPGKey = <<>>

\* The passphrase reproduces the confirmation hash of entry k.
Matches(k, passphrase) ==
    /\ IsPassphraseEntry(k)
    /\ k.ConfirmationHash = KeyFromPassphrase(passphrase, k.Salt, FALSE).confirmationHash

\* The passphrase is one of the repository's registered passphrases.
Registered(i, passphrase) == \E j \in 1..Len(i.Keys) : Matches(i.Keys[j], passphrase)

\* Some asymmetric entry can be unwrapped with the local keyring.
GPGUnlockable(i, keyring) ==
    \E j \in 1..Len(i.Keys) : ~IsPassphraseEntry(i.Keys[j]) /\ ToLower(i.Keys[j].GPGKey) \in keyring

LegacyPopulated(i) == Len(i.Salt) > 0 /\ Len(i.ConfirmationHash) > 0

IsPrefix(s, t) == Len(s) <= Len(t) /\ SubSeq(t, 1, Len(s)) = s

Occurs(e, ev) == \E n \in 1..Len(ev) : ev[n] = e

Upgraded == call.op = "UpgradeInfoFile"

\* A call of UpgradeInfoFile on a version-1 InfoFile with the legacy fields, whose prompt answered.
LegacyUpgrade ==
    /\ Upgraded
    /\ call.pre.Version = 1
    /\ LegacyPopulated(call.pre)
    /\ call.fault # "prompt"

-----------------------------------------------------------------------------
(* Claims *)

\* C1 (as stated): UpgradeInfoFile on an InfoFile that is already at version 3
\* returns no error and leaves the InfoFile identical, and so does a second call.
C1_NoOpAtVersion3 ==
    (Upgraded /\ call.pre.Version = 3) =>
        /\ call.err = Nil
        /\ info = call.pre
        /\ \A in \in PromptInputs({"none"}) :
              LET again == UpgradeInfoFile(info, in.passphrase, in.fault)
              IN  again.err = Nil /\ again.info = info

\* C1 (amended): UpgradeInfoFile on an InfoFile that is already at version 3
\* returns the unsupported-version error and leaves the InfoFile identical
\* (version, keys, legacy salt, legacy confirmation hash); a second call in
\* succession gives the same result: the same error, the InfoFile still identical.
C1_RejectedAtVersion3 ==
    (Upgraded /\ call.pre.Version = 3) =>
        /\ call.err = ErrUnsupported
        /\ call.errMessage = "Unsupported repository version"
        /\ info = call.pre
        /\ \A in \in PromptInputs({"none", "derive1", "salt", "derive", "wrap", "add"}) :
              LET again == UpgradeInfoFile(info, in.passphrase, in.fault)
              IN  /\ again.err = call.err
                  /\ again.errMessage = call.errMessage
                  /\ again.info = info

C1_Witness ==
    /\ Upgraded
    /\ call.pre.Version = 3
    /\ Len(call.pre.Keys) >= 2
    /\ call.err = ErrUnsupported

\* C2: when AddKey fails inside NewInfoFile, NewInfoFile returns that error;
\* it never returns a nil error together with a nil InfoFile.
C2_NewInfoFilePropagates ==
    (call.op = "NewInfoFile") =>
        /\ call.inner # Nil => call.err = call.inner
        /\ ~(call.err = Nil /\ call.isNil)

\* C3: a successful UpgradeInfoFile of a version-1 InfoFile with legacy salt s1
\* and hash h1 clears both legacy fields, appends exactly one passphrase entry
\* whose salt is the freshly generated one and differs from s1, and unlocking
\* the upgraded InfoFile with the same passphrase returns the master key that
\* the passphrase recovered (derived from s1) before the upgrade.
C3_MigrationRotation ==
    (LegacyUpgrade /\ call.err = Nil) =>
        LET new    == info.Keys[Len(info.Keys)]
            before == KeyFromPassphrase(call.passphrase, call.pre.Salt, FALSE)
            after  == GetMasterKeyWithPassphrase(info, call.passphrase)
        IN  /\ info.Salt = <<>>
            /\ info.ConfirmationHash = <<>>
            /\ Len(info.Keys) = Len(call.pre.Keys) + 1
            /\ IsPrefix(call.pre.Keys, info.Keys)
            /\ IsPassphraseEntry(new)
            /\ new.Salt = NewSalt(call.pre, "none").salt
            /\ Len(new.Salt) > 0
            /\ new.Salt # call.pre.Salt
            /\ Matches(new, call.passphrase)
            /\ after.err = Nil
            /\ after.masterKey = before.key
            /\ after.masterKey = master

C3_Witness ==
    /\ LegacyUpgrade
    /\ call.err = Nil
    /\ call.pre.Salt = LegacySalt
    /\ Len(call.pre.Keys) = 1
    /\ Len(info.Keys) = 2
    /\ info.Version = 3

\* C4: UpgradeInfoFile on an InfoFile whose version is outside {1, 2} (0,
\* negative, 3 and above) fails with the unsupported-version error, does not
\* change the InfoFile and does not prompt for a passphrase.
C4_UnsupportedVersionRejected ==
    (Upgraded /\ call.pre.Version \notin {1, 2}) =>
        /\ call.err = ErrUnsupported
        /\ info = call.pre
        /\ ~Occurs("prompt", call.ev)
        /\ call.ev = <<>>

C4_Witness ==
    /\ Upgraded
    /\ call.pre.Version < 1
    /\ Len(call.pre.Keys) > 0
    /\ call.err = ErrUnsupported

\* C5: in the 1 -> 2 migration of an InfoFile with populated legacy fields, a
\* passphrase that does not reproduce the legacy confirmation hash makes
\* UpgradeInfoFile fail with the invalid-credentials error and leaves the
\* InfoFile unchanged: version 1, legacy fields kept, no entry appended.
C5_WrongPassphraseLeavesLegacy ==
    (/\ LegacyUpgrade
     /\ KeyFromPassphrase(call.passphrase, call.pre.Salt, FALSE).confirmationHash
            # call.pre.ConfirmationHash) =>
        /\ call.err = ErrInvalidPassphrase
        /\ info = call.pre
        /\ info.Version = 1
        /\ info.Salt = call.pre.Salt
        /\ info.ConfirmationHash = call.pre.ConfirmationHash
        /\ info.Keys = call.pre.Keys

C5_Witness ==
    /\ LegacyUpgrade
    /\ call.passphrase = "wrong"
    /\ call.fault = "none"
    /\ Len(call.pre.Keys) > 0
    /\ call.err = ErrInvalidPassphrase

\* C6: after every successful UpgradeInfoFile the key entries present before
\* the call are a prefix of the key list, unmodified and in order; at most one
\* entry, a passphrase entry, is appended.
C6_MigrationOnlyAppends ==
    (Upgraded /\ call.err = Nil) =>
        /\ IsPrefix(call.pre.Keys, info.Keys)
        /\ Len(info.Keys) <= Len(call.pre.Keys) + 1
        /\ \A j \in (Len(call.pre.Keys) + 1)..Len(info.Keys) : IsPassphraseEntry(info.Keys[j])

C6_Witness ==
    /\ Upgraded
    /\ call.err = Nil
    /\ Len(call.pre.Keys) >= 2
    /\ Len(info.Keys) = Len(call.pre.Keys) + 1
    /\ \E j \in 1..Len(call.pre.Keys) : ~IsPassphraseEntry(call.pre.Keys[j])
    /\ \E j \in 1..Len(call.pre.Keys) : IsPassphraseEntry(call.pre.Keys[j])

\* C7: in a repository whose factors were all added with its master key, a
\* GetMasterKey prompted with any registered passphrase succeeds and returns
\* that master key, the one generated at creation.
C7_UnlockReturnsMasterKey ==
    (/\ call.op = "GetMasterKey"
     /\ call.fault # "prompt"
     /\ Registered(info, call.passphrase)) =>
        /\ call.err = Nil
        /\ call.retKey = master
        /\ call.retKey # NilKey

C7_Witness ==
    /\ call.op = "GetMasterKey"
    /\ master = GenKey("mk1")
    /\ info.Version = 3
    /\ Len(info.Keys) = 2
    /\ Matches(info.Keys[1], "hunter2")
    /\ Matches(info.Keys[2], "backup-phrase")
    /\ call.passphrase = "backup-phrase"
    /\ call.keyId = info.Keys[2].Salt
    /\ call.retKey = master

\* C8: GetMasterKey prompted with a passphrase that matches no passphrase
\* entry, with no asymmetric entry unwrappable locally, fails with the
\* invalid-credentials error and no other, returns no master key and no key id
\* and leaves the InfoFile unchanged, whether no factor or many were tried.
C8_NoMatchIsInvalidCredentials ==
    (/\ call.op = "GetMasterKey"
     /\ call.fault # "prompt"
     /\ ~Registered(call.pre, call.passphrase)
     /\ ~GPGUnlockable(call.pre, call.keyring)) =>
        /\ call.err = ErrInvalidPassphrase
        /\ call.errMessage = "Cannot unlock the repository"
        /\ call.retKey = NilKey
        /\ call.keyId = <<>>
        /\ info = call.pre

C8_Witness ==
    /\ call.op = "GetMasterKey"
    /\ call.passphrase = "wrong"
    /\ call.err = ErrInvalidPassphrase
    /\ Len(info.Keys) >= 2
    /\ Occurs("gpg-unwrap", call.ev)
    /\ Occurs("try", call.ev)

\* C9: AddKey on the passphrase path, when the prompted passphrase already
\* unlocks the InfoFile, fails with the duplicate-factor error and leaves the
\* key list as it was; no salt is generated and nothing is wrapped.
C9_DuplicatePassphraseRejected ==
    (/\ call.op = "AddKey"
     /\ call.gpgKey = <<>>
     /\ call.fault # "prompt"
     /\ GetMasterKeyWithPassphrase(call.pre, call.passphrase).err = Nil) =>
        /\ call.err = ErrPassphraseDuplicate
        /\ info = call.pre
        /\ Len(info.Keys) = Len(call.pre.Keys)
        /\ ~Occurs("salt", call.ev)
        /\ ~Occurs("wrap", call.ev)

C9_Witness ==
    /\ call.op = "AddKey"
    /\ call.gpgKey = <<>>
    /\ call.fault = "none"
    /\ call.err = ErrPassphraseDuplicate
    /\ Registered(call.pre, call.passphrase)
    /\ info.Keys = call.pre.Keys

\* C10: no two asymmetric entries of info.Keys have recipient ids that are
\* equal when compared case-insensitively; an AddKey whose recipient id
\* differs from an existing one at most in letter case is rejected with the
\* duplicate-factor error and the key list is unchanged.
C10_RecipientsUniqueIgnoringCase ==
    /\ \A j, k \in 1..Len(info.Keys) :
          (j # k /\ ~IsPassphraseEntry(info.Keys[j]) /\ ~IsPassphraseEntry(info.Keys[k]))
              => ToLower(info.Keys[j].GPGKey) # ToLower(info.Keys[k].GPGKey)
    /\ (/\ call.op = "AddKey"
        /\ call.gpgKey # <<>>
        /\ \E j \in 1..Len(call.pre.Keys) :
              /\ ~IsPassphraseEntry(call.pre.Keys[j])
              /\ ToLower(call.pre.Keys[j].GPGKey) = ToLower(call.gpgKey)) =>
            /\ call.err = ErrGPGDuplicate
            /\ info = call.pre

C10_Witness ==
    /\ call.op = "AddKey"
    /\ call.gpgKey = <<97, 98, 99>>
    /\ \E j \in 1..Len(call.pre.Keys) : call.pre.Keys[j].GPGKey = <<65, 66, 67>>
    /\ call.err = ErrGPGDuplicate
    /\ info.Keys = call.pre.Keys

\* The positions of event e in a trace.
Positions(e, ev) == { n \in 1..Len(ev) : ev[n] = e }

\* The first asymmetric entry the keyring can unwrap (0: none).
FirstUnlockable(i, keyring) ==
    LET js == { j \in 1..Len(i.Keys) :
                  ~IsPassphraseEntry(i.Keys[j]) /\ ToLower(i.Keys[j].GPGKey) \in keyring }
    IN  IF js = {} THEN 0 ELSE CHOOSE j \in js : \A k \in js : j <= k

\* C11: GetMasterKey tries the asymmetric entries before any passphrase is
\* requested: when one can be unwrapped, the master key and that entry's
\* recipient id are returned with no prompt; otherwise the passphrase is
\* requested exactly once, after the asymmetric attempts and before the
\* passphrase entries are tried.
C11_GPGBeforeSinglePrompt ==
    (call.op = "GetMasterKey") =>
        LET j == FirstUnlockable(call.pre, call.keyring)
        IN  IF j # 0
            THEN /\ call.err = Nil
                 /\ call.retKey = call.pre.Keys[j].MasterKey.pt
                 /\ call.keyId = call.pre.Keys[j].GPGKey
                 /\ Positions("prompt", call.ev) = {}
                 /\ Positions("try", call.ev) = {}
            ELSE /\ Cardinality(Positions("prompt", call.ev)) = 1
                 /\ \A m \in Positions("gpg-unwrap", call.ev), n \in Positions("prompt", call.ev) :
                       m < n
                 /\ \A m \in Positions("try", call.ev) \cup Positions("unwrap", call.ev),
                       n \in Positions("prompt", call.ev) : n < m

C11_Witness ==
    /\ call.op = "GetMasterKey"
    /\ Len(info.Keys) >= 2
    /\ \E j \in 1..Len(info.Keys) : IsPassphraseEntry(info.Keys[j])
    /\ call.keyring # {}
    /\ call.err = Nil
    /\ call.keyId \in GpgIds
    /\ call.retKey = master
    /\ call.ev = <<"gpg-unwrap">>

\* The values info.Version takes during the last call of UpgradeInfoFile.
VersionSteps == <<call.pre.Version>> \o call.versions

\* C12 (as stated): every change migration makes to info.Version is one step
\* forward: version 1 becomes 2 and only then 3, never 3 in a single assignment.
C12_OneStepAtATime ==
    Upgraded => \A n \in 1..(Len(VersionSteps) - 1) : VersionSteps[n + 1] = VersionSteps[n] + 1

\* C12 (amended): every change migration makes to info.Version is strictly
\* forward, but the version is assigned only once, at the end of a successful
\* call and directly to 3 (a version-1 InfoFile goes from 1 to 3 in a single
\* assignment, after the 1 -> 2 step has run); a failed call assigns nothing.
C12_ForwardSingleAssignment ==
    Upgraded =>
        /\ \A n \in 1..(Len(VersionSteps) - 1) : VersionSteps[n + 1] > VersionSteps[n]
        /\ info.Version = VersionSteps[Len(VersionSteps)]
        /\ call.err = Nil => call.versions = <<3>>
        /\ call.err # Nil => call.versions = <<>>

C12_Witness ==
    /\ Upgraded
    /\ call.pre.Version = 1
    /\ LegacyPopulated(call.pre)
    /\ Occurs("add", call.ev)
    /\ call.versions = <<3>>
    /\ info.Version = 3

\* C13: over any sequence of calls info.Version never decreases; only
\* UpgradeInfoFile changes it, and after every successful UpgradeInfoFile that
\* started at version 1 or 2 the version is exactly 3.
C13_VersionMonotone ==
    /\ call.op \in {"AddKey", "GetMasterKey"} => info.Version = call.pre.Version
    /\ (call.op = "NewInfoFile" /\ open) => info.Version = EmptyInfo.Version
    /\ Upgraded => info.Version >= call.pre.Version
    /\ (Upgraded /\ call.err = Nil /\ call.pre.Version \in {1, 2}) => info.Version = 3
    /\ (Upgraded /\ call.err # Nil) => info.Version = call.pre.Version

C13_Witness ==
    /\ Upgraded
    /\ call.err = Nil
    /\ call.pre.Version = 2
    /\ Len(call.pre.Keys) >= 2
    /\ info.Version = 3

\* C14: no two passphrase entries of info.Keys can be unlocked by the same
\* passphrase, the entry appended by the 1 -> 2 migration included.
C14_OnePassphraseEntryPerPassphrase ==
    \A passphrase \in Passphrases :
        Cardinality({ j \in 1..Len(info.Keys) : Matches(info.Keys[j], passphrase) }) <= 1

\* A call whose passphrase prompt was reached and failed.
PromptCancelled ==
    /\ call.fault = "prompt"
    /\ \/ call.op = "GetMasterKey" /\ ~GPGUnlockable(call.pre, call.keyring)
       \/ call.op = "AddKey" /\ call.gpgKey = <<>>
       \/ Upgraded /\ call.pre.Version = 1 /\ LegacyPopulated(call.pre)

\* C15: when the passphrase prompt is cancelled or fails, GetMasterKey, AddKey
\* (passphrase path) and UpgradeInfoFile (1 -> 2 with legacy fields) return
\* the prompt's own error, which is not the invalid-credentials error, try no
\* passphrase entry, derive and wrap no key, and leave the InfoFile unchanged.
C15_PromptErrorReturned ==
    PromptCancelled =>
        /\ call.err = ErrPrompt
        /\ call.err # ErrInvalidPassphrase
        /\ call.errMessage = "Error getting passphrase"
        /\ call.retKey = NilKey
        /\ \A e \in {"try", "unwrap", "salt", "derive", "wrap", "add"} : ~Occurs(e, call.ev)
        /\ call.ev[Len(call.ev)] = "prompt"
        /\ info = call.pre

C15_Witness ==
    /\ PromptCancelled
    /\ call.op = "GetMasterKey"
    /\ \E j \in 1..Len(info.Keys) : IsPassphraseEntry(info.Keys[j])
    /\ Occurs("gpg-unwrap", call.ev)
    /\ call.err = ErrPrompt

\* C17: in the 1 -> 2 migration a failure of the key derivation for the
\* legacy salt is reported as that primitive's failure, not as the
\* invalid-credentials error; invalid-credentials is reported only when the
\* derivation succeeded and the confirmation hashes differ.
C17_DeriveFailureIsPrimitiveFailure ==
    LegacyUpgrade =>
        /\ call.fault = "derive1" => (call.err = ErrDerive /\ call.err # ErrInvalidPassphrase)
        /\ call.err = ErrInvalidPassphrase =>
              /\ call.fault # "derive1"
              /\ KeyFromPassphrase(call.passphrase, call.pre.Salt, FALSE).confirmationHash
                     # call.pre.ConfirmationHash

\* C18: UpgradeInfoFile on a version-1 InfoFile whose legacy salt or legacy
\* confirmation hash is empty succeeds without a prompt and without a re-wrap:
\* the key list and the legacy fields are unchanged, only the version changes, to 3.
C18_NoLegacyFieldsOnlyVersion ==
    (Upgraded /\ call.pre.Version = 1 /\ ~LegacyPopulated(call.pre)) =>
        /\ call.err = Nil
        /\ call.ev = <<>>
        /\ info.Keys = call.pre.Keys
        /\ info.Salt = call.pre.Salt
        /\ info.ConfirmationHash = call.pre.ConfirmationHash
        /\ info.Version = 3
        /\ info = [call.pre EXCEPT !.Version = 3]

C18_Witness ==
    /\ Upgraded
    /\ call.pre.Version = 1
    /\ Len(call.pre.Salt) > 0
    /\ call.pre.ConfirmationHash = <<>>
    /\ Len(call.pre.Keys) > 0
    /\ info.Version = 3
    /\ info.Salt = call.pre.Salt

\* C20: every AddKey or UpgradeInfoFile call that returns an error leaves the
\* InfoFile exactly as it was (version, key list, legacy salt and hash); the
\* legacy fields are cleared only by a call that appended the new passphrase
\* entry and succeeded.
C20_FailedCallLeavesInfoFile ==
    /\ (call.op \in {"AddKey", "UpgradeInfoFile"} /\ call.err # Nil) => info = call.pre
    /\ (/\ Upgraded
        /\ \/ info.Salt # call.pre.Salt
           \/ info.ConfirmationHash # call.pre.ConfirmationHash) =>
            /\ call.err = Nil
            /\ Occurs("add", call.ev)
            /\ Len(info.Keys) = Len(call.pre.Keys) + 1
            /\ IsPassphraseEntry(info.Keys[Len(info.Keys)])

C20_Witness ==
    /\ Upgraded
    /\ call.fault = "wrap"
    /\ call.err = ErrWrap
    /\ call.pre.Version = 1
    /\ LegacyPopulated(call.pre)
    /\ Occurs("salt", call.ev)
    /\ info = call.pre

-----------------------------------------------------------------------------
(* Vocabulary of the claims about the sandboxed side *)

\* The two entry points under the namespace object Prvt.
EntryPoints == {<<"Prvt", "decryptRequest">>, <<"Prvt", "getIndex">>}

\* Request n caused a timer that is still set, or a message that was broadcast.
Scheduled(n) == \E i \in 1..Len(page.timers) : page.timers[i] = n

Published(n) == \E i \in 1..Len(page.broadcasts) : page.broadcasts[i].req = n

\* The unlock call gave both a master key and a key id.
Complete(result) ==
    result.kind = "object" /\ result.a.t = "object" /\ result.b.t = "string" /\ result.b.s # ""

\* A value in which the master key of the result occurs.
CarriesKey(fields, result) == \E f \in DOMAIN fields : fields[f] = result.a

\* The handler has ended for request n.
Ended(n) == n <= Len(page.reqs) /\ page.reqs[n].pc = "done"

\* C16: main never returns to its host; nothing is exported before it runs,
\* and from the moment it blocks the global namespace holds exactly the two
\* entry points decryptRequest and getIndex, both under Prvt.
C16_RegistersThenBlocks ==
    /\ wasm.pc \in {"start", "select"}
    /\ wasm.pc = "start" => wasm.global = {}
    /\ wasm.pc = "select" => wasm.global = EntryPoints

C16_Witness ==
    /\ wasm.pc = "select"
    /\ wasm.global = EntryPoints
    /\ Len(page.reqs) = MaxRequests
    /\ \A n \in 1..Len(page.reqs) : page.reqs[n].pc = "done"
    /\ \E n \in 1..Len(page.reqs) : page.reqs[n].error = "TypeError"

====
